---- MODULE Spec2Model ----
(***************************************************************************)
(* Model of bck/create_favicon.py: a script that draws a 16x16 radio icon, *)
(* encodes it as favicon.ico and as two PNG files, and prints progress     *)
(* lines.  One run of the script is a walk of pc over its statements; the  *)
(* environment (is PIL importable, which filesystem calls are rejected,    *)
(* what the directory held before) is chosen in Init and never changes.    *)
(***************************************************************************)
EXTENDS Integers, Sequences, FiniteSets, TLC

\* How many times in succession the script is run in one behaviour.
MaxRuns == 2

\* ------------------------------------------------------------------------
\* Literals of the script
\* ------------------------------------------------------------------------
BaseSize == 16
LargeSize == 32

IcoFile == "favicon.ico"
Png16File == "favicon-16x16.png"
Png32File == "favicon-32x32.png"
OutputFiles == {IcoFile, Png16File, Png32File}

IcoCreatedLine == "favicon.ico created successfully!"
PngCreatedLine == "PNG versions created successfully!"
FallbackLine1 == "PIL/Pillow not available. Creating a simple HTML-based solution..."
FallbackLine2 == "Use the favicon-generator.html file to create favicon manually."

BackgroundSlate == <<45, 55, 72, 255>>
BodyGray == <<74, 85, 104, 255>>
SpeakerDark == <<26, 32, 44, 255>>
KnobLight == <<113, 128, 150, 255>>
SignalGreen == <<72, 187, 120, 255>>

\* ------------------------------------------------------------------------
\* Canvases and drawing primitives (PIL.Image / PIL.ImageDraw as the script
\* uses them).  A canvas is its size, its fill and the ordered list of the
\* primitives painted on it; pixels are not modelled.
\* ------------------------------------------------------------------------
ImageNew(mode, size, color) ==
    [mode |-> mode, size |-> size, background |-> color,
     ops |-> <<>>, resample |-> "NONE"]

Rectangle(box, fill) ==
    [kind |-> "rectangle", xy |-> box, fill |-> fill, angles |-> <<>>]

Ellipse(box, fill) ==
    [kind |-> "ellipse", xy |-> box, fill |-> fill, angles |-> <<>>]

Line(p, q, fill) ==
    [kind |-> "line", xy |-> p \o q, fill |-> fill, angles |-> <<>>]

Arc(box, start, end, fill) ==
    [kind |-> "arc", xy |-> box, fill |-> fill, angles |-> <<start, end>>]

Draw(img, prim) == [img EXCEPT !.ops = Append(@, prim)]

\* img.resize(size, filter): a new canvas of the given size resampled from img.
Resize(img, size, filter) == [img EXCEPT !.size = size, !.resample = filter]

\* Paint a list of primitives in order.
RECURSIVE DrawAll(_, _)
DrawAll(img, prims) ==
    IF prims = <<>> THEN img
    ELSE DrawAll(Draw(img, Head(prims)), Tail(prims))

\* Mutant: the second signal arc is moved one pixel right, off the canvas.
create_favicon_off_canvas ==
    DrawAll(ImageNew("RGBA", <<BaseSize, BaseSize>>, BackgroundSlate),
            <<Rectangle(<<2, 6, 14, 14>>, BodyGray),
              Ellipse(<<4, 8, 8, 12>>, SpeakerDark),
              Ellipse(<<10, 7, 12, 9>>, KnobLight),
              Ellipse(<<12, 7, 14, 9>>, KnobLight),
              Ellipse(<<10, 11, 12, 13>>, KnobLight),
              Ellipse(<<12, 11, 14, 13>>, KnobLight),
              Line(<<3, 6>>, <<2, 2>>, KnobLight),
              Line(<<13, 6>>, <<14, 2>>, KnobLight),
              Arc(<<1, 3, 5, 7>>, 0, 90, SignalGreen),
              Arc(<<12, 3, 16, 7>>, 90, 180, SignalGreen)>>)

\* Mutant: the antennas are painted in a colour of their own.
create_favicon_sixth_color ==
    DrawAll(ImageNew("RGBA", <<BaseSize, BaseSize>>, BackgroundSlate),
            <<Rectangle(<<2, 6, 14, 14>>, BodyGray),
              Ellipse(<<4, 8, 8, 12>>, SpeakerDark),
              Ellipse(<<10, 7, 12, 9>>, KnobLight),
              Ellipse(<<12, 7, 14, 9>>, KnobLight),
              Ellipse(<<10, 11, 12, 13>>, KnobLight),
              Ellipse(<<12, 11, 14, 13>>, KnobLight),
              Line(<<3, 6>>, <<2, 2>>, <<160, 174, 192, 255>>),
              Line(<<13, 6>>, <<14, 2>>, <<160, 174, 192, 255>>),
              Arc(<<1, 3, 5, 7>>, 0, 90, SignalGreen),
              Arc(<<11, 3, 15, 7>>, 90, 180, SignalGreen)>>)

create_favicon ==
    LET img0 == ImageNew("RGBA", <<BaseSize, BaseSize>>, BackgroundSlate)
        d1 == Draw(img0, Rectangle(<<2, 6, 14, 14>>, BodyGray))
        d2 == Draw(d1, Ellipse(<<4, 8, 8, 12>>, SpeakerDark))
        d3 == Draw(d2, Ellipse(<<10, 7, 12, 9>>, KnobLight))
        d4 == Draw(d3, Ellipse(<<12, 7, 14, 9>>, KnobLight))
        d5 == Draw(d4, Ellipse(<<10, 11, 12, 13>>, KnobLight))
        d6 == Draw(d5, Ellipse(<<12, 11, 14, 13>>, KnobLight))
        d7 == Draw(d6, Line(<<3, 6>>, <<2, 2>>, KnobLight))
        d8 == Draw(d7, Line(<<13, 6>>, <<14, 2>>, KnobLight))
        d9 == Draw(d8, Arc(<<1, 3, 5, 7>>, 0, 90, SignalGreen))
        d10 == Draw(d9, Arc(<<11, 3, 15, 7>>, 90, 180, SignalGreen))
    IN d10

\* ------------------------------------------------------------------------
\* Encoders.  File data is a record: the container format, the frames it
\* holds in order, and the metadata chunks (timestamps and the like) the
\* encoder adds.
\* ------------------------------------------------------------------------
NoData == [format |-> "none", frames |-> <<>>, meta |-> <<>>]
\* A file that does not exist, one left by an earlier program, one truncated.
Absent == [format |-> "absent", frames |-> <<>>, meta |-> <<>>]
Stale == [format |-> "stale", frames |-> <<>>, meta |-> <<>>]
Empty == [format |-> "empty", frames |-> <<>>, meta |-> <<>>]

SizeLess(a, b) == a[1] < b[1] \/ (a[1] = b[1] /\ a[2] < b[2])

\* sorted(set(sizes))
RECURSIVE SortedSizes(_)
SortedSizes(S) ==
    IF S = {} THEN <<>>
    ELSE LET m == CHOOSE a \in S : \A b \in S \ {a} : SizeLess(a, b)
         IN <<m>> \o SortedSizes(S \ {m})

SeqRange(q) == {q[i] : i \in 1..Len(q)}

\* The frame the ICO writer stores for one requested size: the first provided
\* image of exactly that size, else the last provided image scaled to it.
IcoFrame(size, provided) ==
    IF \E i \in 1..Len(provided) : provided[i].size = size
    THEN provided[CHOOSE i \in 1..Len(provided) :
                    /\ provided[i].size = size
                    /\ \A j \in 1..(i - 1) : provided[j].size # size]
    ELSE Resize(provided[Len(provided)], size, "LANCZOS")

\* im.save(fp, format='ICO', sizes=sizes, append_images=append_images):
\* requested sizes larger than im itself (or than 256) are skipped.
IcoSave(im, sizes, append_images) ==
    LET kept == {s \in SeqRange(sizes) :
                    ~(s[1] > im.size[1] \/ s[2] > im.size[2]
                      \/ s[1] > 256 \/ s[2] > 256)}
        order == SortedSizes(kept)
        provided == <<im>> \o append_images
    IN [format |-> "ICO",
        frames |-> [i \in 1..Len(order) |-> IcoFrame(order[i], provided)],
        meta |-> <<>>]

create_ico_data ==
    LET img16 == create_favicon
        img32 == Resize(img16, <<LargeSize, LargeSize>>, "LANCZOS")
    IN IcoSave(img16, <<<<BaseSize, BaseSize>>, <<LargeSize, LargeSize>>>>, <<>>)

\* ------------------------------------------------------------------------
\* State
\* ------------------------------------------------------------------------
VARIABLES
    pilAvailable,  \* environment: can "from PIL import ..." be resolved
    fsFault,       \* environment: per file, which call the filesystem rejects
    files,         \* the working directory: file name -> data
    pc,            \* the statement the run is at
    ico_data,      \* the script's variable ico_data
    img,           \* the script's variable img
    openHandles,   \* names of the files that have an open handle
    created,       \* did the pending PNG save create its file
    console,       \* lines printed to standard output by this run
    uncaught,      \* the exception that ended the run, or "none"
    events,        \* history: completed writes and printed lines, in order
    failedWrite,   \* history: the file whose write was rejected, or "none"
    startFiles,    \* history: the directory as this run found it
    run,           \* which run this is
    prev           \* history: how the previous run ended

vars == <<pilAvailable, fsFault, files, pc, ico_data, img, openHandles, created,
          console, uncaught, events, failedWrite, startFiles, run, prev>>

env == <<pilAvailable, fsFault>>

NoImage == ImageNew("none", <<0, 0>>, <<>>)

Outcome == [files |-> files, console |-> console, uncaught |-> uncaught]

Faults == {"none", "open", "write"}

Init ==
    /\ pilAvailable \in BOOLEAN
    /\ fsFault \in [OutputFiles -> Faults]
    /\ files \in [OutputFiles -> {Absent, Stale}]
    /\ pc = "import"
    /\ ico_data = NoData
    /\ img = NoImage
    /\ openHandles = {}
    /\ created = FALSE
    /\ console = <<>>
    /\ uncaught = "none"
    /\ events = <<>>
    /\ failedWrite = "none"
    /\ startFiles = files
    /\ run = 1
    /\ prev = [files |-> files, console |-> <<>>, uncaught |-> "none"]

\* Mutant: the encoder stamps the file with the time of the run (the run
\* counter stands for the clock).
PngSaveStamped(im) == [format |-> "PNG", frames |-> <<im>>, meta |-> <<run>>]

\* im.save(name, format='PNG'): one frame, no ancillary chunks.
PngSave(im) == [format |-> "PNG", frames |-> <<im>>, meta |-> <<>>]

\* ------------------------------------------------------------------------
\* Control flow of the script
\* ------------------------------------------------------------------------
\* The statements of the try block, in program order.  The saves of lines 52
\* and 53 open their file and then write it.
TryBlock ==
    <<"create_ico_data", "open_ico", "write_ico", "print_ico",
      "create_favicon", "open_png16", "write_png16",
      "open_png32", "write_png32", "print_png">>

InTry(p) == p \in SeqRange(TryBlock)

\* The statement after p in a block; after the last one the script falls off
\* its end.
NextIn(block, p) ==
    LET i == CHOOSE k \in 1..Len(block) : block[k] = p
    IN IF i = Len(block) THEN "exit" ELSE block[i + 1]

\* Mutant: the first success line is printed before favicon.ico is opened.
SuccessorPrintsFirst(p) ==
    NextIn(<<"create_ico_data", "print_ico", "open_ico", "write_ico",
             "create_favicon", "open_png16", "write_png16",
             "open_png32", "write_png32", "print_png">>, p)

\* Mutant: the 32x32 PNG is never saved.
SuccessorSkipsPng32(p) ==
    NextIn(<<"create_ico_data", "open_ico", "write_ico", "print_ico",
             "create_favicon", "open_png16", "write_png16", "print_png">>, p)

Successor(p) == NextIn(TryBlock, p)

\* Mutant: a bare "except:".
CatchesEverything(exc) == TRUE

\* "except ImportError": ModuleNotFoundError is a subclass of ImportError,
\* OSError is not.
Catches(exc) == exc \in {"ImportError", "ModuleNotFoundError"}

Terminated == pc \in {"exit", "traceback"}

\* An exception raised by the statement at pc: the handler of lines 56-59
\* runs if the statement is inside the try block and the handler matches;
\* otherwise the exception leaves the script as a traceback.
Raise(exc) ==
    IF InTry(pc) /\ Catches(exc)
    THEN /\ console' = console \o <<FallbackLine1, FallbackLine2>>
         /\ events' = events \o <<FallbackLine1, FallbackLine2>>
         /\ uncaught' = uncaught
         /\ pc' = "exit"
    ELSE /\ console' = console
         /\ events' = events
         /\ uncaught' = exc
         /\ pc' = "traceback"

\* print(line) followed by the next statement.
PrintLine(line) ==
    /\ console' = Append(console, line)
    /\ events' = Append(events, line)
    /\ pc' = Successor(pc)
    /\ UNCHANGED <<env, files, ico_data, img, openHandles, created, uncaught,
                   failedWrite, startFiles, run, prev>>

\* open(name, 'wb') / Pillow's open(name, 'w+b'): creates or truncates.
OpenForWrite(name) ==
    IF fsFault[name] = "open"
    THEN /\ failedWrite' = name
         /\ Raise("OSError")
         /\ UNCHANGED <<env, files, ico_data, img, openHandles, created,
                        startFiles, run, prev>>
    ELSE /\ openHandles' = openHandles \cup {name}
         /\ created' = (files[name] = Absent)
         /\ files' = [files EXCEPT ![name] = Empty]
         /\ pc' = Successor(pc)
         /\ UNCHANGED <<env, ico_data, img, console, uncaught, events,
                        failedWrite, startFiles, run, prev>>

\* What a rejected write leaves behind.  The with-block of lines 46-47 leaves
\* the truncated file; Pillow's save removes a file it had created itself.
LeftBehind(name, removeCreated) ==
    IF removeCreated /\ created THEN Absent ELSE Empty

\* Mutant: no with-statement, so a rejected write leaves the handle open.
WriteLeavesOpenOnError(name, data, removeCreated) ==
    IF fsFault[name] = "write"
    THEN /\ failedWrite' = name
         /\ files' = [files EXCEPT ![name] = LeftBehind(name, removeCreated)]
         /\ Raise("OSError")
         /\ UNCHANGED <<env, ico_data, img, openHandles, created, startFiles,
                        run, prev>>
    ELSE /\ files' = [files EXCEPT ![name] = data]
         /\ openHandles' = openHandles \ {name}
         /\ events' = Append(events, name)
         /\ pc' = Successor(pc)
         /\ UNCHANGED <<env, ico_data, img, created, console, uncaught,
                        failedWrite, startFiles, run, prev>>

\* Write data to the open handle and close it; the handle is closed on the
\* failure path too (with-statement, Pillow's save).
WriteAndClose(name, data, removeCreated) ==
    IF fsFault[name] = "write"
    THEN /\ failedWrite' = name
         /\ files' = [files EXCEPT ![name] = LeftBehind(name, removeCreated)]
         /\ openHandles' = openHandles \ {name}
         /\ Raise("OSError")
         /\ UNCHANGED <<env, ico_data, img, created, startFiles, run, prev>>
    ELSE /\ files' = [files EXCEPT ![name] = data]
         /\ openHandles' = openHandles \ {name}
         /\ events' = Append(events, name)
         /\ pc' = Successor(pc)
         /\ UNCHANGED <<env, ico_data, img, created, console, uncaught,
                        failedWrite, startFiles, run, prev>>

\* ------------------------------------------------------------------------
\* Actions: one per statement of the script
\* ------------------------------------------------------------------------
\* Lines 1-3 (the defs of lines 6-41 only bind names).
ImportModules ==
    /\ pc = "import"
    /\ IF pilAvailable
       THEN /\ pc' = TryBlock[1]
            /\ UNCHANGED <<console, events, uncaught>>
       ELSE Raise("ModuleNotFoundError")
    /\ UNCHANGED <<env, files, ico_data, img, openHandles, created,
                   failedWrite, startFiles, run, prev>>

\* Line 45.
CallCreateIcoData ==
    /\ pc = "create_ico_data"
    /\ ico_data' = create_ico_data
    /\ pc' = Successor(pc)
    /\ UNCHANGED <<env, files, img, openHandles, created, console, uncaught,
                   events, failedWrite, startFiles, run, prev>>

\* Line 46.
OpenIco ==
    /\ pc = "open_ico"
    /\ OpenForWrite(IcoFile)

\* Line 47 and the end of the with-block.
WriteIco ==
    /\ pc = "write_ico"
    /\ WriteAndClose(IcoFile, ico_data, FALSE)

\* Line 48.
PrintIcoCreated ==
    /\ pc = "print_ico"
    /\ PrintLine(IcoCreatedLine)

\* Line 51.
CallCreateFavicon ==
    /\ pc = "create_favicon"
    /\ img' = create_favicon
    /\ pc' = Successor(pc)
    /\ UNCHANGED <<env, files, ico_data, openHandles, created, console,
                   uncaught, events, failedWrite, startFiles, run, prev>>

\* Line 52.
OpenPng16 ==
    /\ pc = "open_png16"
    /\ OpenForWrite(Png16File)

WritePng16 ==
    /\ pc = "write_png16"
    /\ WriteAndClose(Png16File, PngSave(img), TRUE)

\* Line 53.
OpenPng32 ==
    /\ pc = "open_png32"
    /\ OpenForWrite(Png32File)

WritePng32 ==
    /\ pc = "write_png32"
    /\ WriteAndClose(Png32File,
                     PngSave(Resize(img, <<LargeSize, LargeSize>>, "LANCZOS")),
                     TRUE)

\* Line 54.
PrintPngCreated ==
    /\ pc = "print_png"
    /\ PrintLine(PngCreatedLine)

\* The script is started again, as a new process, in the same directory and
\* environment.
Rerun ==
    /\ Terminated
    /\ run < MaxRuns
    /\ prev' = Outcome
    /\ run' = run + 1
    /\ startFiles' = files
    /\ pc' = "import"
    /\ ico_data' = NoData
    /\ img' = NoImage
    /\ created' = FALSE
    /\ console' = <<>>
    /\ uncaught' = "none"
    /\ events' = <<>>
    /\ failedWrite' = "none"
    /\ openHandles' = {}
    /\ UNCHANGED <<env, files>>

Next ==
    \/ ImportModules
    \/ CallCreateIcoData
    \/ OpenIco
    \/ WriteIco
    \/ PrintIcoCreated
    \/ CallCreateFavicon
    \/ OpenPng16
    \/ WritePng16
    \/ OpenPng32
    \/ WritePng32
    \/ PrintPngCreated
    \/ Rerun

Spec == Init /\ [][Next]_vars

\* The script is one sequential thread: a statement that can run does run.
FairSpec == Spec /\ WF_vars(Next)

\* ------------------------------------------------------------------------
\* Properties
\* ------------------------------------------------------------------------
SuccessLines == <<IcoCreatedLine, PngCreatedLine>>
FallbackLines == <<FallbackLine1, FallbackLine2>>
NoFault == \A name \in OutputFiles : fsFault[name] = "none"
Written(name) ==
    /\ files[name].format \in {"ICO", "PNG"}
    /\ name \in SeqRange(events)
LargeOf(c) == Resize(c, <<LargeSize, LargeSize>>, "LANCZOS")

\* C1: when PIL cannot be imported the run ends normally, having printed the
\* two fallback lines and written none of the three files.
C1_FallbackWhenPilMissing ==
    (~pilAvailable /\ Terminated) =>
        /\ pc = "exit"
        /\ uncaught = "none"
        /\ console = FallbackLines
        /\ files = startFiles

Succeeded ==
    /\ pc = "exit"
    /\ uncaught = "none"
    /\ console = SuccessLines
    /\ \A name \in OutputFiles : Written(name)
    /\ files[Png16File].frames[1].size = <<BaseSize, BaseSize>>
    /\ files[Png32File].frames[1].size = <<LargeSize, LargeSize>>

\* C2: a run with PIL available and no rejected filesystem call terminates,
\* and it ends with all three files written and both success lines printed.
C2_CompletesWhenEnvironmentOk ==
    /\ []((Terminated /\ pilAvailable /\ NoFault) => Succeeded)
    /\ ((pc = "import" /\ pilAvailable /\ NoFault) ~> Succeeded)

C2_Witness ==
    /\ pilAvailable /\ NoFault /\ Succeeded
    /\ startFiles = [name \in OutputFiles |-> Absent]

\* C3: the data written to favicon.ico holds exactly two frames, the 16x16
\* base canvas and the 32x32 canvas resized from it.
C3_IcoHoldsBothCanvases ==
    (files[IcoFile].format = "ICO") =>
        /\ Len(files[IcoFile].frames) = 2
        /\ files[IcoFile].frames[1] = create_favicon
        /\ files[IcoFile].frames[2] = LargeOf(create_favicon)

\* C4: a finished run shows exactly one of: both success lines; both
\* fallback lines; a write-failure error with no line printed.
C4_ExactlyOneOutcome ==
    Terminated =>
        \/ (pc = "exit" /\ uncaught = "none" /\ console = SuccessLines)
        \/ (pc = "exit" /\ uncaught = "none" /\ console = FallbackLines)
        \/ (pc = "traceback" /\ uncaught = "OSError" /\ console = <<>>)

\* C5: a rejected write of any of the three files is not caught: no fallback
\* line is printed and the run ends with the OSError as a traceback.
C5_WriteFailureNotRecovered ==
    (failedWrite # "none") =>
        /\ pc = "traceback"
        /\ uncaught = "OSError"
        /\ SeqRange(console) \cap SeqRange(FallbackLines) = {}

C5_Witness ==
    /\ failedWrite = Png32File
    /\ pc = "traceback"
    /\ console = <<IcoCreatedLine>>

\* C6: a second run in the same environment ends with the same file
\* contents and the same console lines as the run before it.
C6_Idempotent ==
    (Terminated /\ run > 1) => Outcome = prev

C6_Witness ==
    /\ run > 1
    /\ Succeeded
    /\ prev.console = SuccessLines

OutputOrder ==
    <<IcoFile, IcoCreatedLine, Png16File, Png32File, PngCreatedLine>>

\* C7: the outputs of a run occur in program order: favicon.ico written,
\* first success line, favicon-16x16.png written, favicon-32x32.png
\* written, second success line; no output occurs before its predecessors.
C7_OutputsInOrder ==
    /\ Len(events) <= Len(OutputOrder)
    /\ events = SubSeq(OutputOrder, 1, Len(events))

C7_Witness == events = OutputOrder

HandleAt(p) ==
    CASE p = "write_ico" -> {IcoFile}
      [] p = "write_png16" -> {Png16File}
      [] p = "write_png32" -> {Png32File}
      [] OTHER -> {}

\* C8: at most one file handle is open at a time, a handle is open only
\* between the open of a file and its write, and none is open once the run
\* has ended, whether the write succeeded or was rejected.
C8_HandlesScoped ==
    /\ Cardinality(openHandles) <= 1
    /\ openHandles = HandleAt(pc)

C8_Witness ==
    /\ failedWrite = Png16File
    /\ fsFault[Png16File] = "write"
    /\ pc = "traceback"
    /\ openHandles = {}

WellDrawn(c) ==
    /\ c.mode = "RGBA"
    /\ c.size = <<BaseSize, BaseSize>>
    /\ c.background = BackgroundSlate
    /\ [i \in 1..Len(c.ops) |-> c.ops[i].kind] =
          <<"rectangle", "ellipse", "ellipse", "ellipse", "ellipse",
            "ellipse", "line", "line", "arc", "arc">>
    /\ c.ops[1].fill = BodyGray
    /\ c.ops[2].fill = SpeakerDark
    /\ \A i \in 3..6 : c.ops[i].fill = KnobLight
    /\ \A i \in 1..Len(c.ops) :
          \A k \in 1..Len(c.ops[i].xy) : c.ops[i].xy[k] \in 0..(BaseSize - 1)

\* C9: the canvas create_favicon returns is 16x16 RGBA on the background
\* colour with exactly ten primitives in order: the body rectangle, the
\* speaker ellipse, four knob ellipses, two antenna lines, two signal arcs;
\* every coordinate lies in 0..15.
C9_TenPrimitivesInBounds ==
    /\ (img # NoImage) => WellDrawn(img)
    /\ (ico_data # NoData) => WellDrawn(ico_data.frames[1])

C9_Witness ==
    /\ pc = "open_png16"
    /\ Len(img.ops) = 10

ColorsUsed(c) == {c.background} \cup {c.ops[i].fill : i \in 1..Len(c.ops)}

\* C10 (as stated): every colour of the base canvas is one of the four
\* constants background slate, body gray, dark speaker, light knob.
C10_FourColorPalette ==
    (img # NoImage) =>
        ColorsUsed(img) \subseteq
            {BackgroundSlate, BodyGray, SpeakerDark, KnobLight}

\* C10 (amended): the colours of the base canvas are exactly five constants:
\* background slate, body gray, dark speaker, light knob, and the signal
\* green that only the two arcs use.
C10_FiveColorPalette ==
    (img # NoImage) =>
        /\ ColorsUsed(img) =
              {BackgroundSlate, BodyGray, SpeakerDark, KnobLight, SignalGreen}
        /\ \A i \in 1..Len(img.ops) :
              (img.ops[i].fill = SignalGreen) <=> (img.ops[i].kind = "arc")

C10_Witness ==
    /\ img # NoImage
    /\ \E i \in 1..Len(img.ops) : img.ops[i].fill = SignalGreen

====
